---- MODULE Spec2Model ----
(***************************************************************************)
(* Model of src/app.js: the "random repository" page.                      *)
(*                                                                         *)
(* One cycle is one invocation of run().  A cycle is suspended at an       *)
(* await: the count fetch, the read of the count body, the page fetch, the *)
(* read of the page body, or the read of an error body inside              *)
(* toGitHubError.  Each action below is one task of the event loop: the    *)
(* code that runs from one resumption of a cycle to its next await (or to  *)
(* the end of run, finally block included).                                *)
(*                                                                         *)
(* AbortController.abort() rejects the pending fetch promise, and errors   *)
(* the body stream of a response that is still being read, synchronously;  *)
(* the continuation of the aborted cycle is a microtask and so runs before *)
(* any further task.  MicrotaskPending is that priority.  A body that had  *)
(* been read to its end when abort() was called is no longer readable and  *)
(* is left alone: its read settles as if the signal had not been aborted.  *)
(* Whether a body read had reached the end at the moment of a click is not *)
(* fixed by the code, so run() chooses it for every cycle that is reading  *)
(* a body under the signal it aborts.                                      *)
(*                                                                         *)
(* Text is modelled as a sequence of string tokens, so that template       *)
(* literals and string concatenation are sequence concatenation.           *)
(***************************************************************************)
EXTENDS Integers, Sequences, FiniteSets, TLC

(* Bounds of the model *)
MaxCycles == 2
RandDen == 10

(* Program constants *)
PageCap == 10
PerPage == 100

VARIABLES
  LANGUAGES,              \* window.LANGUAGES: whether defined, and its list
  options,                \* els.languageSelect: its <option> values, in order
  value,                  \* els.languageSelect.value
  status,                 \* els.status.textContent
  statusColor,            \* els.status.style.color
  cardHidden,             \* els.card.classList has "hidden"
  refreshHidden,          \* els.refreshBtn.classList has "hidden"
  fetchBtnDisabled,       \* els.fetchBtn.disabled
  refreshBtnDisabled,     \* els.refreshBtn.disabled
  languageSelectDisabled, \* els.languageSelect.disabled
  view,                   \* the eight slots renderRepo writes
  currentAbort,           \* the AbortController of the last cycle, 0 for null
  aborted,                \* the controllers whose abort() has been called
  cyc                     \* the invocations of run(): locals and position

uiState == <<status, statusColor, cardHidden, refreshHidden, view>>
controls == <<fetchBtnDisabled, refreshBtnDisabled, languageSelectDisabled>>
vars == <<LANGUAGES, options, value, status, statusColor, cardHidden, refreshHidden,
          fetchBtnDisabled, refreshBtnDisabled, languageSelectDisabled, view,
          currentAbort, aborted, cyc>>

Cycles == 1..MaxCycles

(***************************************************************************)
(* Text                                                                    *)
(***************************************************************************)
DigitChar(d) ==
  CASE d = 0 -> "0" [] d = 1 -> "1" [] d = 2 -> "2" [] d = 3 -> "3"
    [] d = 4 -> "4" [] d = 5 -> "5" [] d = 6 -> "6" [] d = 7 -> "7"
    [] d = 8 -> "8" [] d = 9 -> "9"

RECURSIVE Digits(_)
Digits(n) ==
  IF n < 10 THEN <<DigitChar(n)>>
  ELSE Digits(n \div 10) \o <<DigitChar(n % 10)>>

Pad3(n) ==
  <<DigitChar(n \div 100), DigitChar((n \div 10) % 10), DigitChar(n % 10)>>

RECURSIVE toLocaleString(_)
toLocaleString(n) ==
  IF n < 1000 THEN Digits(n)
  ELSE toLocaleString(n \div 1000) \o <<",">> \o Pad3(n % 1000)

(***************************************************************************)
(* JSON values and HTTP responses                                          *)
(***************************************************************************)
EmptyObj == [k \in {} |-> 0]
Has(o, f) == f \in DOMAIN o

Unparsable == [parses |-> FALSE, json |-> EmptyObj]
Json(o) == [parses |-> TRUE, json |-> o]

RepoFull ==
  [full_name |-> "rust-lang/rust", name |-> "rust",
   html_url |-> "https://github.com/rust-lang/rust",
   description |-> "Empowering everyone",
   stargazers_count |-> 1234, forks_count |-> 56, open_issues_count |-> 7,
   language |-> "Rust", owner |-> [login |-> "rust-lang"]]
RepoBare == [name |-> "gopher"]
Repos == {RepoFull, RepoBare}

Totals == {0, 1, 50, 99, 100, 101, 250, 900, 901, 1000, 5000}
ItemLists ==
  {<<>>, <<RepoFull>>, <<RepoBare, RepoFull>>, <<RepoFull, RepoBare, RepoFull>>}

CountBodies ==
  {Unparsable, Json(EmptyObj)} \cup {Json([total_count |-> n]) : n \in Totals}
PageBodies ==
  {Unparsable, Json(EmptyObj)} \cup {Json([items |-> l]) : l \in ItemLists}
ErrorBodies ==
  {Unparsable, Json(EmptyObj),
   Json([message |-> "Bad credentials"]),
   Json([message |-> "Bad credentials", documentation_url |-> "https://x"]),
   Json([documentation_url |-> "https://x"])}

OkStatuses == {200}
ErrStatuses == {403, 502}
ResponseOk(res) == res.status >= 200 /\ res.status <= 299

NoRes == [status |-> 0, body |-> Unparsable]
ErrorResponses ==
  {[status |-> s, body |-> b] : s \in ErrStatuses, b \in ErrorBodies}
AllCountResponses ==
  {[status |-> s, body |-> b] : s \in OkStatuses, b \in CountBodies}
    \cup ErrorResponses
AllPageResponses ==
  {[status |-> s, body |-> b] : s \in OkStatuses, b \in PageBodies}
    \cup ErrorResponses

\* the responses the interleavings of several cycles are explored with: one
\* of each kind the code tells apart
Forbidden ==
  [status |-> 403,
   body |-> Json([message |-> "Bad credentials",
                  documentation_url |-> "https://x"])]
CountResponses ==
  {[status |-> 200, body |-> Json([total_count |-> 0])],
   [status |-> 200, body |-> Json([total_count |-> 150])],
   [status |-> 200, body |-> Unparsable],
   Forbidden}
PageResponses ==
  {[status |-> 200, body |-> Json([items |-> <<>>])],
   [status |-> 200, body |-> Json([items |-> <<RepoFull>>])],
   Forbidden}

(***************************************************************************)
(* Errors                                                                  *)
(***************************************************************************)
Err(name, message) == [name |-> name, message |-> message]
AbortError == Err("AbortError", <<"The user aborted a request.">>)
NetworkError == Err("TypeError", <<"Failed to fetch">>)
ParseError == Err("SyntaxError", <<"Unexpected end of JSON input">>)
NoRepo == EmptyObj
NoErr == Err("", <<>>)

(***************************************************************************)
(* Pure functions of app.js                                                *)
(***************************************************************************)
Min(a, b) == IF a <= b THEN a ELSE b
Ceil(a, b) == -((-a) \div b)

\* Math.random() is k / RandDen for some k in 0 .. RandDen-1
AllSamples == 0 .. RandDen - 1
\* its least and its greatest value
RandomSamples == {0, RandDen - 1}

randomInt_OffByOne(min, max, k) == ((k * (max - min + 2)) \div RandDen) + min

randomInt(min, max, k) == ((k * (max - min + 1)) \div RandDen) + min

maxPagesOf_NoCap(total) == Ceil(total, PerPage)

maxPagesOf(total) == Min(PageCap, Ceil(total, PerPage))

\* what fetchRandomRepo does once resCount.json() has settled (lines
\* 122-133): throw, return null, or sample a page and request it
Throw(err) == [do |-> "throw", error |-> err, value |-> NoRepo, page |-> 0,
               nsample |-> 0]
ReturnNull == [do |-> "null", error |-> NoErr, value |-> NoRepo, page |-> 0,
               nsample |-> 0]
RequestPage(page) == [do |-> "fetch", error |-> NoErr, value |-> NoRepo,
                      page |-> page, nsample |-> 1]
ReturnItem(items, i) ==
  [do |-> IF i + 1 \in DOMAIN items THEN "repo" ELSE "undefined",
   error |-> NoErr,
   value |-> IF i + 1 \in DOMAIN items THEN items[i + 1] ELSE NoRepo,
   page |-> 0, nsample |-> 1]

totalOf(body) ==
  IF Has(body.json, "total_count") THEN body.json.total_count ELSE 0

afterCount_NoZeroCheck(body, k) ==
  IF ~body.parses THEN Throw(ParseError)
  ELSE RequestPage(randomInt(1, maxPagesOf(totalOf(body)), k))

afterCount(body, k) ==
  IF ~body.parses THEN Throw(ParseError)
  ELSE IF totalOf(body) = 0 THEN ReturnNull
  ELSE RequestPage(randomInt(1, maxPagesOf(totalOf(body)), k))

\* what it does once resPage.json() has settled (lines 144-150)
itemsOf(body) == IF Has(body.json, "items") THEN body.json.items ELSE <<>>

afterPage(body, k) ==
  IF ~body.parses THEN Throw(ParseError)
  ELSE IF Len(itemsOf(body)) = 0 THEN ReturnNull
  ELSE ReturnItem(itemsOf(body), randomInt(0, Len(itemsOf(body)) - 1, k))

\* `rejected`: response.json() rejected (unparsable body, or body read aborted)
toGitHubError(res, rejected) ==
  LET msg0 == <<"Request failed (">> \o Digits(res.status) \o <<")">>
      body == res.body.json
      msg1 == IF Has(body, "message") THEN <<body.message>> ELSE msg0
      msg2 == IF Has(body, "documentation_url")
              THEN msg1 \o <<" -- ", body.documentation_url>>
              ELSE msg1
  IN  Err("Error", IF rejected \/ ~res.body.parses THEN msg0 ELSE msg2)

renderRepo(repo) ==
  [repoName |-> IF Has(repo, "full_name") THEN <<repo.full_name>>
                ELSE IF Has(repo, "name") THEN <<repo.name>>
                ELSE <<"Unknown repo">>,
   repoLink |-> IF Has(repo, "html_url") THEN <<repo.html_url>> ELSE <<"#">>,
   repoDesc |-> IF Has(repo, "description") THEN <<repo.description>>
                ELSE <<"No description provided.">>,
   stars |-> toLocaleString(IF Has(repo, "stargazers_count")
                            THEN repo.stargazers_count ELSE 0),
   forks |-> toLocaleString(IF Has(repo, "forks_count")
                            THEN repo.forks_count ELSE 0),
   issues |-> toLocaleString(IF Has(repo, "open_issues_count")
                             THEN repo.open_issues_count ELSE 0),
   languageChip |-> IF Has(repo, "language")
                    THEN <<"Language: ", repo.language>>
                    ELSE <<"Language: (unknown)">>,
   ownerChip |-> IF Has(repo, "owner") /\ Has(repo.owner, "login")
                 THEN <<"Owner: ", repo.owner.login>>
                 ELSE <<"Owner: (unknown)">>]

NoView ==
  [repoName |-> <<>>, repoLink |-> <<>>, repoDesc |-> <<>>, stars |-> <<>>,
   forks |-> <<>>, issues |-> <<>>, languageChip |-> <<>>, ownerChip |-> <<>>]

\* window.LANGUAGES, and the <option>s the page holds before the script runs
Windows ==
  {[defined |-> FALSE, list |-> <<>>], [defined |-> TRUE, list |-> <<>>],
   [defined |-> TRUE, list |-> <<"Rust", "Go">>]}
HtmlOptions == {<<>>, <<[value |-> "stale", textContent |-> "stale"]>>}

populateLanguages_Append(before, win) ==
  LET langs == IF win.defined THEN win.list ELSE <<>>
  IN  before \o
      [i \in 1..Len(langs) |-> [value |-> langs[i], textContent |-> langs[i]]]

populateLanguages(before, win) ==
  LET langs == IF win.defined THEN win.list ELSE <<>>
  IN  [i \in 1..Len(langs) |-> [value |-> langs[i], textContent |-> langs[i]]]

\* the em dash and the ellipsis of the source are written "--" and "..."
LoadingMsg == <<"Loading...">>
NoReposMsg(language) ==
  <<"No repositories found for \"", language, "\". Try another language.">>
ErrorMsg(err) == <<"Error: ">> \o err.message

(***************************************************************************)
(* DOM writes                                                              *)
(***************************************************************************)
setStatus(message, type) ==
  /\ status' = message
  /\ statusColor' = IF type = "error" THEN "var(--danger)" ELSE ""

showCard(show) == cardHidden' = ~show

showRefresh(show) == refreshHidden' = ~show

setLoading_FetchOnly(isLoading) ==
  /\ fetchBtnDisabled' = isLoading
  /\ languageSelectDisabled' = isLoading
  /\ UNCHANGED refreshBtnDisabled

setLoading(isLoading) ==
  /\ fetchBtnDisabled' = isLoading
  /\ refreshBtnDisabled' = isLoading
  /\ languageSelectDisabled' = isLoading

(***************************************************************************)
(* Cycles                                                                  *)
(***************************************************************************)
NoOutcome == [kind |-> "none", repo |-> NoRepo, error |-> NoErr]
Returned(repo) == [kind |-> "repo", repo |-> repo, error |-> NoErr]
ReturnedNull == [kind |-> "null", repo |-> NoRepo, error |-> NoErr]
Threw(err) ==
  [kind |-> IF err.name = "AbortError" THEN "abort" ELSE "error",
   repo |-> NoRepo, error |-> err]

NewCycle ==
  [pc |-> "new", language |-> "", signal |-> 0, res |-> NoRes, page |-> 0,
   nreq |-> 0, nsample |-> 0, outcome |-> NoOutcome, superseded |-> FALSE,
   consumed |-> FALSE]

AwaitingPcs ==
  {"countFetch", "countJson", "countErr", "pageFetch", "pageJson", "pageErr"}
Awaiting(c) == cyc[c].pc \in AwaitingPcs
BodyPcs == {"countJson", "countErr", "pageJson", "pageErr"}
Cancelled(c) == cyc[c].signal \in aborted

\* abort() rejects a pending fetch and errors a body that is still being
\* read; a body that had been read to its end when abort() was called
\* (`consumed`) is left alone, and its reader resumes as if not cancelled
Interrupted(c) == Awaiting(c) /\ Cancelled(c) /\ ~cyc[c].consumed

\* an aborted await has a continuation queued as a microtask
MicrotaskPending == \E c \in Cycles : Interrupted(c)

Init ==
  /\ LANGUAGES \in Windows
  /\ \E html \in HtmlOptions : options = populateLanguages(html, LANGUAGES)
  /\ value = IF options = <<>> THEN "" ELSE options[1].value
  /\ status = <<>>
  /\ statusColor = ""
  /\ cardHidden = TRUE
  /\ refreshHidden = TRUE
  /\ fetchBtnDisabled = FALSE
  /\ refreshBtnDisabled = FALSE
  /\ languageSelectDisabled = FALSE
  /\ view = NoView
  /\ currentAbort = 0
  /\ aborted = {}
  /\ cyc = [c \in Cycles |-> NewCycle]

(***************************************************************************)
(* run(): what follows `await fetchRandomRepo(language)`                   *)
(***************************************************************************)
ReturnedUndefined == [kind |-> "undefined", repo |-> NoRepo, error |-> NoErr]

\* of an invocation that is over and is not the last one started, only the
\* kind of outcome is remembered
Forget(r) ==
  IF r.pc = "done"
  THEN [r EXCEPT !.language = "", !.nreq = 0, !.nsample = 0,
                 !.outcome = [NoOutcome EXCEPT !.kind = r.outcome.kind]]
  ELSE r

\* the invocation is over: its locals are gone, its outcome is kept while
\* it is the last one started; `superseded` records whether a later cycle
\* had started by then
Settle(c, outcome, nsample) ==
  LET r == [cyc[c] EXCEPT !.pc = "done", !.res = NoRes, !.page = 0,
                          !.outcome = outcome, !.nsample = @ + nsample,
                          !.consumed = FALSE,
                          !.superseded = (c # currentAbort)]
  IN  cyc' = [cyc EXCEPT ![c] = IF c = currentAbort THEN r ELSE Forget(r)]

runEmpty(c) ==
  /\ setStatus(NoReposMsg(cyc[c].language), "info")
  /\ UNCHANGED <<cardHidden, refreshHidden, view>>

runSuccess_StaleDescription(c, repo) ==
  /\ view' = [renderRepo(repo) EXCEPT
               !.repoDesc = IF Has(repo, "description")
                            THEN <<repo.description>> ELSE view.repoDesc]
  /\ setStatus(<<>>, "info")
  /\ showCard(TRUE)
  /\ showRefresh(TRUE)

runSuccess(c, repo) ==
  /\ view' = renderRepo(repo)
  /\ setStatus(<<>>, "info")
  /\ showCard(TRUE)
  /\ showRefresh(TRUE)

runCatch(c, err) ==
  IF err.name = "AbortError"
  THEN UNCHANGED <<status, statusColor, cardHidden, refreshHidden, view>>
  ELSE /\ setStatus(ErrorMsg(err), "error")
       /\ UNCHANGED <<cardHidden, refreshHidden, view>>

runFinally_Missing(c) == UNCHANGED controls

runFinally(c) == setLoading(FALSE)

\* fetchRandomRepo returned or threw: the rest of run, to its end
ResumeWith(c, outcome, nsample) ==
  /\ CASE outcome.kind = "repo" -> runSuccess(c, outcome.repo)
       [] outcome.kind \in {"null", "undefined"} -> runEmpty(c)
       [] OTHER -> runCatch(c, outcome.error)
  /\ runFinally(c)
  /\ Settle(c, outcome, nsample)
  /\ UNCHANGED <<LANGUAGES, options, value, currentAbort, aborted>>

Resume(c, outcome) == ResumeWith(c, outcome, 0)

Finish(c, step) ==
  ResumeWith(c,
             CASE step.do = "throw" -> Threw(step.error)
               [] step.do = "null" -> ReturnedNull
               [] step.do = "undefined" -> ReturnedUndefined
               [] OTHER -> Returned(step.value),
             step.nsample)

\* the cycle moves to its next await: nothing of the page changes
Suspend(c, rec) ==
  /\ cyc' = [cyc EXCEPT ![c] = rec]
  /\ UNCHANGED <<LANGUAGES, options, value, status, statusColor, cardHidden,
                 refreshHidden, fetchBtnDisabled, refreshBtnDisabled,
                 languageSelectDisabled, view, currentAbort, aborted>>

(***************************************************************************)
(* Actions                                                                 *)
(***************************************************************************)
\* if (currentAbort) currentAbort.abort()
cancelPrevious_Never == aborted' = aborted

cancelPrevious ==
  aborted' = IF currentAbort # 0 THEN aborted \cup {currentAbort} ELSE aborted

\* run() up to the first await, fetchRandomRepo's lines 98-116 included
Run(mode) ==
  /\ currentAbort < MaxCycles
  /\ ~MicrotaskPending
  /\ setLoading(TRUE)
  /\ showCard(FALSE)
  /\ showRefresh(FALSE)
  /\ setStatus(LoadingMsg, "info")
  /\ cancelPrevious
  /\ currentAbort' = currentAbort + 1
  /\ \E atEnd \in SUBSET {c \in Cycles : cyc[c].pc \in BodyPcs
                                          /\ cyc[c].signal = currentAbort} :
       cyc' = [c \in Cycles |->
                    IF c = currentAbort + 1
                    THEN [NewCycle EXCEPT !.pc = "countFetch",
                            !.language = value,
                            !.signal = currentAbort + 1, !.nreq = 1]
                    ELSE IF c \in atEnd
                    THEN [cyc[c] EXCEPT !.consumed = TRUE]
                    ELSE Forget(cyc[c])]
  /\ UNCHANGED <<LANGUAGES, options, value, view>>

\* the user picks another option of the select
SelectLanguage(l) ==
  /\ ~MicrotaskPending
  /\ ~languageSelectDisabled
  /\ \E i \in DOMAIN options : options[i].value = l
  /\ l # value
  /\ value' = l
  /\ UNCHANGED <<LANGUAGES, options, status, statusColor, cardHidden, refreshHidden,
                 fetchBtnDisabled, refreshBtnDisabled, languageSelectDisabled,
                 view, currentAbort, aborted, cyc>>

Resumable(c, pc) == cyc[c].pc = pc /\ ~MicrotaskPending

\* the count fetch resolves with a response (lines 113-120)
CountFetchResolves(c, res) ==
  /\ Resumable(c, "countFetch")
  /\ Suspend(c, [cyc[c] EXCEPT !.res = res,
                   !.pc = IF ResponseOk(res) THEN "countJson" ELSE "countErr"])

\* the count fetch rejects: network failure
CountFetchFails(c) ==
  /\ Resumable(c, "countFetch")
  /\ Resume(c, Threw(NetworkError))

\* resCount.json() settles (lines 122-138)
CountBodyRead(c, k) ==
  /\ Resumable(c, "countJson")
  /\ LET step == afterCount(cyc[c].res.body, k)
     IN  IF step.do = "fetch"
         THEN Suspend(c, [cyc[c] EXCEPT
                !.pc = "pageFetch", !.res = NoRes, !.page = step.page,
                !.signal = currentAbort, !.consumed = FALSE,
                !.nreq = @ + 1, !.nsample = @ + step.nsample])
         ELSE Finish(c, step)

\* toGitHubError(resCount) settles and is thrown (lines 119, 154-166)
CountErrorRead(c) ==
  /\ Resumable(c, "countErr")
  /\ Resume(c, Threw(toGitHubError(cyc[c].res, FALSE)))

\* the page fetch resolves with a response (lines 135-142)
PageFetchResolves(c, res) ==
  /\ Resumable(c, "pageFetch")
  /\ Suspend(c, [cyc[c] EXCEPT !.res = res, !.page = 0,
                   !.pc = IF ResponseOk(res) THEN "pageJson" ELSE "pageErr"])

PageFetchFails(c) ==
  /\ Resumable(c, "pageFetch")
  /\ Resume(c, Threw(NetworkError))

\* resPage.json() settles (lines 144-150)
PageBodyRead(c, k) ==
  /\ Resumable(c, "pageJson")
  /\ Finish(c, afterPage(cyc[c].res.body, k))

PageErrorRead(c) ==
  /\ Resumable(c, "pageErr")
  /\ Resume(c, Threw(toGitHubError(cyc[c].res, FALSE)))

\* the await of a cancelled cycle rejects with an AbortError.  Inside
\* toGitHubError the rejection is caught (line 161) and the default message
\* is thrown as an ordinary Error.
AbortObserved(c) ==
  /\ Interrupted(c)
  /\ IF cyc[c].pc \in {"countErr", "pageErr"}
     THEN Resume(c, Threw(toGitHubError(cyc[c].res, TRUE)))
     ELSE Resume(c, Threw(AbortError))

CycleStep(c) ==
  \/ \E res \in CountResponses : CountFetchResolves(c, res)
  \/ CountFetchFails(c)
  \/ \E k \in RandomSamples : CountBodyRead(c, k)
  \/ CountErrorRead(c)
  \/ \E res \in PageResponses : PageFetchResolves(c, res)
  \/ PageFetchFails(c)
  \/ \E k \in RandomSamples : PageBodyRead(c, k)
  \/ PageErrorRead(c)
  \/ AbortObserved(c)

Next ==
  \/ \E mode \in {"fetch", "refresh"} : Run(mode)
  \/ \E l \in {"Rust", "Go"} : SelectLanguage(l)
  \/ \E c \in Cycles, res \in CountResponses : CountFetchResolves(c, res)
  \/ \E c \in Cycles : CountFetchFails(c)
  \/ \E c \in Cycles, k \in RandomSamples : CountBodyRead(c, k)
  \/ \E c \in Cycles : CountErrorRead(c)
  \/ \E c \in Cycles, res \in PageResponses : PageFetchResolves(c, res)
  \/ \E c \in Cycles : PageFetchFails(c)
  \/ \E c \in Cycles, k \in RandomSamples : PageBodyRead(c, k)
  \/ \E c \in Cycles : PageErrorRead(c)
  \/ \E c \in Cycles : AbortObserved(c)

Spec == Init /\ [][Next]_vars

\* every issued request eventually resolves, rejects or is aborted, and
\* every body read eventually settles
FairSpec == Spec /\ WF_vars(\E c \in Cycles : CycleStep(c))

(***************************************************************************)
(* One cycle on every response                                             *)
(***************************************************************************)
\* the first cycle has received the response to its count request
ClientInit ==
  /\ LANGUAGES = [defined |-> TRUE, list |-> <<"Rust", "Go">>]
  /\ options = populateLanguages(<<>>, LANGUAGES)
  /\ value \in {"Rust", "Go"}
  /\ status = LoadingMsg
  /\ statusColor = ""
  /\ cardHidden = TRUE
  /\ refreshHidden = TRUE
  /\ fetchBtnDisabled = TRUE
  /\ refreshBtnDisabled = TRUE
  /\ languageSelectDisabled = TRUE
  /\ view = NoView
  /\ currentAbort = 1
  /\ aborted = {}
  /\ \E res \in AllCountResponses :
       cyc = [c \in Cycles |->
                IF c = 1
                THEN [NewCycle EXCEPT
                        !.pc = IF ResponseOk(res) THEN "countJson"
                               ELSE "countErr",
                        !.language = value, !.signal = 1, !.nreq = 1,
                        !.res = res]
                ELSE NewCycle]

ClientNext ==
  \/ \E c \in Cycles, k \in AllSamples : CountBodyRead(c, k)
  \/ \E c \in Cycles : CountErrorRead(c)
  \/ \E c \in Cycles, res \in AllPageResponses : PageFetchResolves(c, res)
  \/ \E c \in Cycles, k \in AllSamples : PageBodyRead(c, k)
  \/ \E c \in Cycles : PageErrorRead(c)

ClientSpec == ClientInit /\ [][ClientNext]_vars

(***************************************************************************)
(* Properties                                                              *)
(***************************************************************************)
\* the controller made at the start of cycle c (line 102) is numbered c
TokenOf(c) == c
Started(c) == cyc[c].pc # "new"
Settled(c) == cyc[c].pc = "done"
Steps(c) == Awaiting(c) /\ cyc'[c].pc # cyc[c].pc
NoCycleInFlight == \A c \in Cycles : ~Awaiting(c)
ControlsDisabled ==
  fetchBtnDisabled /\ refreshBtnDisabled /\ languageSelectDisabled
ControlsEnabled ==
  ~fetchBtnDisabled /\ ~refreshBtnDisabled /\ ~languageSelectDisabled

\* the page as run() leaves it for an outcome of fetchRandomRepo
Populated(repo) ==
  /\ view = renderRepo(repo)
  /\ status = <<>> /\ statusColor = ""
  /\ ~cardHidden /\ ~refreshHidden
Empty(language) ==
  /\ status = NoReposMsg(language) /\ statusColor = ""
  /\ cardHidden /\ refreshHidden
Errored(message) ==
  /\ status = <<"Error: ">> \o message /\ statusColor = "var(--danger)"
  /\ cardHidden /\ refreshHidden
Shows(language, outcome) ==
  CASE outcome.kind = "repo" -> Populated(outcome.repo)
    [] outcome.kind \in {"null", "undefined"} -> Empty(language)
    [] outcome.kind = "error" -> Errored(outcome.error.message)
    [] OTHER -> FALSE

\* C1: a cycle that is not the most recently started one never changes the
\* status message, its colour, the card, the refresh button or the rendered
\* repository when it resumes or settles.
C1_SupersededNeverWritesUI ==
  [][\A c \in Cycles :
       (Steps(c) /\ c # currentAbort) => uiState' = uiState]_vars

\* C2: when cycle b was started while cycle a was in flight, then once both
\* have settled (and b is the last cycle started) the page shows b's outcome.
C2_FinalStateIsLaterOutcome ==
  \A a \in Cycles, b \in Cycles :
    (/\ a < b /\ b = currentAbort
     /\ Settled(a) /\ cyc[a].superseded
     /\ Settled(b))
    => Shows(cyc[b].language, cyc[b].outcome)

\* a cycle that can still reach a step that changes uiState
WritesUIOnAbort(c) == ENABLED (AbortObserved(c) /\ uiState' # uiState)
Active(c) == Awaiting(c) /\ (~Interrupted(c) \/ WritesUIOnAbort(c))

\* C3: at most one unsettled cycle can still change the page; every other
\* unsettled cycle is cancelled and ends without changing it.
C3_AtMostOneActive == Cardinality({c \in Cycles : Active(c)}) <= 1

\* C4: while the most recently started cycle is unsettled, the find button,
\* the refresh button and the language select are all disabled.
C4_DisabledWhileLatestInFlight ==
  (currentAbort # 0 /\ Awaiting(currentAbort)) => ControlsDisabled

\* C5: under fairness of the cycles' resumptions every started cycle
\* settles (again and again no cycle is left in flight), and whenever no
\* cycle is in flight the controls are enabled and the status is not the
\* loading message.
C5_LoadingAlwaysCleared ==
  /\ []<>NoCycleInFlight
  /\ [](NoCycleInFlight => (ControlsEnabled /\ status # LoadingMsg))

\* C5 witness: a cancelled cycle and a failed cycle have both settled and
\* the page is usable again.
C5_Witness ==
  /\ NoCycleInFlight /\ ControlsEnabled
  /\ cyc[1].outcome.kind = "abort" /\ cyc[2].outcome.kind = "error"
  /\ status = <<"Error: ">> \o NetworkError.message

ErrorPcs == {"countErr", "pageErr"}
FetchPcs == {"countFetch", "pageFetch"}

\* C6: when a cycle whose token was not cancelled settles, the page shows
\* exactly the state of its outcome: Populated for a repository, Empty (with the
\* language read at its start) for null, Errored for a failure; a failure
\* (non-2xx response or rejected fetch) ends the cycle as an error without
\* another request.
C6_OneOutcomePerCompletedCycle ==
  [][\A c \in Cycles :
       (Steps(c) /\ TokenOf(c) \notin aborted) =>
         /\ cyc'[c].language = cyc[c].language
         /\ cyc'[c].pc = "done" =>
              /\ cyc'[c].outcome.kind \in {"repo", "null", "error"}
              /\ (Shows(cyc[c].language, cyc[c].outcome))'
              /\ ControlsEnabled'
         /\ cyc[c].pc \in ErrorPcs =>
              /\ cyc'[c].pc = "done" /\ cyc'[c].outcome.kind = "error"
              /\ cyc'[c].nreq = cyc[c].nreq
         /\ (cyc[c].pc \in FetchPcs /\ cyc'[c].pc \notin {"countJson", "pageJson"})
              => /\ cyc'[c].nreq = cyc[c].nreq
                 /\ cyc'[c].pc \in ErrorPcs \cup {"done"}
                 /\ cyc'[c].pc = "done" => cyc'[c].outcome.kind = "error"]_vars

\* C7: the page requested for a positive total_count t lies in 1 .. maxPages
\* with maxPages = min(10, ceil(t / 100)); 50 gives 1, 250 gives 3, 1000 and
\* 5000 give 10; no requested page is beyond 10 or past the 1000th match.
C7_PageWithinWindow ==
  [][\A c \in Cycles :
       (cyc[c].pc = "countJson" /\ cyc'[c].pc = "pageFetch") =>
         LET t == totalOf(cyc[c].res.body)
             p == cyc'[c].page
         IN  /\ t > 0
             /\ 1 <= p /\ p <= 10
             /\ (p - 1) * 100 < t
             /\ p * 100 <= 1000
             /\ t = 50 => p = 1
             /\ t = 250 => p <= 3
             /\ maxPagesOf(50) = 1 /\ maxPagesOf(250) = 3
             /\ maxPagesOf(1000) = 10 /\ maxPagesOf(5000) = 10]_vars

\* C7 witness: the tenth page has been requested.
C7_Witness ==
  \E c \in Cycles : cyc[c].pc = "pageFetch" /\ cyc[c].page = 10

\* C8: for a cycle whose token was not cancelled, a count body with
\* total_count zero or absent ends the cycle with null, no sample and no page
\* request, and the page shows Empty; a page body with an empty or absent
\* item sequence ends it with null and no further sample.
C8_NullWithoutSampling ==
  [][\A c \in Cycles :
       (Steps(c) /\ TokenOf(c) \notin aborted /\ cyc[c].res.body.parses) =>
         /\ (cyc[c].pc = "countJson" /\ totalOf(cyc[c].res.body) = 0) =>
              /\ cyc'[c].pc = "done" /\ cyc'[c].outcome.kind = "null"
              /\ cyc'[c].nreq = 1 /\ cyc'[c].nsample = 0
              /\ (Empty(cyc[c].language))'
         /\ (cyc[c].pc = "pageJson" /\ Len(itemsOf(cyc[c].res.body)) = 0) =>
              /\ cyc'[c].pc = "done" /\ cyc'[c].outcome.kind = "null"
              /\ cyc'[c].nreq = 2 /\ cyc'[c].nsample = 1
              /\ (Empty(cyc[c].language))']_vars

\* C9: a cycle has issued one request while it is at the count stage and two
\* once it is at the page stage, never more than two; the second request is
\* issued only by a cycle whose count request was not rejected (failed or
\* aborted) and whose count response was 2xx with a positive total_count.
C9_CountBeforePage ==
  /\ [](\A c \in Cycles :
          /\ cyc[c].nreq <= 2
          /\ cyc[c].pc \in {"countFetch", "countJson", "countErr"}
               => cyc[c].nreq = 1
          /\ cyc[c].pc \in {"pageFetch", "pageJson", "pageErr"}
               => cyc[c].nreq = 2)
  /\ [][\A c \in Cycles :
          (Started(c) /\ cyc'[c].nreq > cyc[c].nreq) =>
            /\ cyc[c].pc = "countJson" /\ cyc'[c].pc = "pageFetch"
            /\ cyc'[c].nreq = cyc[c].nreq + 1
            /\ ~Interrupted(c)
            /\ ResponseOk(cyc[c].res) /\ cyc[c].res.body.parses
            /\ totalOf(cyc[c].res.body) > 0]_vars

\* C9 witness: a page request is outstanding, the second request of its cycle.
C9_Witness ==
  \E c \in Cycles : cyc[c].pc = "pageFetch" /\ cyc[c].nreq = 2

\* C10: when a cancelled cycle resumes (its await rejects with an AbortError)
\* the status message, its colour, the card, the refresh button and the
\* rendered repository stay as they were.
C10_CancelledCycleLeavesUI ==
  [][\A c \in Cycles :
       (Steps(c) /\ Interrupted(c)) => uiState' = uiState]_vars

\* the message the error normalizer is to produce for a response whose body
\* read settled (`read`) or was rejected
DefaultMessage(res) == <<"Request failed (">> \o Digits(res.status) \o <<")">>
NormalizedMessage(res, read) ==
  LET body == res.body.json
  IN  IF ~read \/ ~res.body.parses THEN DefaultMessage(res)
      ELSE IF Has(body, "message") /\ Has(body, "documentation_url")
           THEN <<body.message, " -- ", body.documentation_url>>
      ELSE IF Has(body, "message") THEN <<body.message>>
      ELSE DefaultMessage(res)

\* C11: for every non-2xx response the normalizer yields an Error whose
\* message is the default when the body does not parse, the body's message
\* when it has one, message and documentation_url joined by a dash when it
\* has both, and exactly the default when the body has no message.
C11_NormalizedMessage ==
  [][\A c \in Cycles :
       (Steps(c) /\ cyc[c].pc \in ErrorPcs) =>
         /\ cyc'[c].pc = "done"
         /\ cyc'[c].outcome.error.name = "Error"
         /\ cyc'[c].outcome.error.message
              = NormalizedMessage(cyc[c].res, ~Interrupted(c))]_vars

(***************************************************************************)
(* The presenter on every shape of record                                  *)
(***************************************************************************)
RepoFields ==
  {"full_name", "name", "html_url", "description", "stargazers_count",
   "forks_count", "open_issues_count", "language", "owner"}

\* the record with the fields of `fields`, its owner being `owner`
RepoWith(fields, owner) ==
  [f \in fields |-> IF f = "owner" THEN owner ELSE RepoFull[f]]

AllRepos ==
  {RepoWith(fields, owner) :
     fields \in SUBSET RepoFields, owner \in {RepoFull.owner, EmptyObj}}

\* the second cycle reads a page body that holds one record, while the page
\* still holds the slots an earlier cycle rendered
PresenterInit ==
  /\ LANGUAGES = [defined |-> TRUE, list |-> <<"Rust", "Go">>]
  /\ options = populateLanguages(<<>>, LANGUAGES)
  /\ value = "Rust"
  /\ status = LoadingMsg
  /\ statusColor = ""
  /\ cardHidden = TRUE
  /\ refreshHidden = TRUE
  /\ fetchBtnDisabled = TRUE
  /\ refreshBtnDisabled = TRUE
  /\ languageSelectDisabled = TRUE
  /\ \E prev \in Repos : view = renderRepo(prev)
  /\ currentAbort = 2
  /\ aborted = {1}
  /\ \E repo \in AllRepos :
       cyc = [c \in Cycles |->
                IF c = 1
                THEN [NewCycle EXCEPT !.pc = "done", !.signal = 1, !.nreq = 2,
                        !.nsample = 2,
                        !.outcome = [NoOutcome EXCEPT !.kind = "repo"]]
                ELSE IF c = 2
                THEN [NewCycle EXCEPT !.pc = "pageJson", !.language = "Rust",
                        !.signal = 2, !.page = 1, !.nreq = 2, !.nsample = 1,
                        !.res = [status |-> 200,
                                 body |-> Json([items |-> <<repo>>])]]
                ELSE NewCycle]

PresenterNext == \E c \in Cycles, k \in AllSamples : PageBodyRead(c, k)

PresenterSpec == PresenterInit /\ [][PresenterNext]_vars

Field(o, f, fallback) == IF f \in DOMAIN o THEN o[f] ELSE fallback
Count(o, f) == IF f \in DOMAIN o THEN toLocaleString(o[f]) ELSE <<"0">>

\* the display slots the presenter is to produce for a record
Presented(repo) ==
  [repoName |-> <<Field(repo, "full_name",
                        Field(repo, "name", "Unknown repo"))>>,
   repoLink |-> <<Field(repo, "html_url", "#")>>,
   repoDesc |-> <<Field(repo, "description", "No description provided.")>>,
   stars |-> Count(repo, "stargazers_count"),
   forks |-> Count(repo, "forks_count"),
   issues |-> Count(repo, "open_issues_count"),
   languageChip |-> IF "language" \in DOMAIN repo
                    THEN <<"Language: ", repo.language>>
                    ELSE <<"Language: (unknown)">>,
   ownerChip |-> IF "login" \in DOMAIN Field(repo, "owner", EmptyObj)
                 THEN <<"Owner: ", repo.owner.login>>
                 ELSE <<"Owner: (unknown)">>]

\* C12: whatever fields the record lacks, the cycle that reads it ends with
\* the record (never an error), and every slot of the page then holds the
\* record's field or the slot's fixed fallback, none the value of the record
\* rendered before.
C12_PresenterTotal ==
  \A c \in Cycles :
    (c = currentAbort /\ Settled(c)) =>
      /\ cyc[c].outcome.kind = "repo"
      /\ view = Presented(cyc[c].outcome.repo)

\* C12 witness: a record without description, language and owner has been
\* rendered.
C12_Witness ==
  /\ Settled(2) /\ cyc[2].outcome.repo = [full_name |-> RepoFull.full_name]
  /\ view.repoDesc = <<"No description provided.">>
  /\ view.languageChip = <<"Language: (unknown)">>
  /\ view.ownerChip = <<"Owner: (unknown)">>
  /\ view.stars = <<"0">> /\ view.repoLink = <<"#">>

(***************************************************************************)
(* The language selector                                                   *)
(***************************************************************************)
Catalog == IF LANGUAGES.defined THEN LANGUAGES.list ELSE <<>>

\* C13: the selector holds exactly one option per catalog entry, in catalog
\* order, value and label both the entry; the options the page had before are
\* gone; an empty or absent catalog gives zero options.
C13_OptionsAreCatalog ==
  /\ Len(options) = Len(Catalog)
  /\ \A i \in 1..Len(Catalog) :
       options[i] = [value |-> Catalog[i], textContent |-> Catalog[i]]
  /\ (~LANGUAGES.defined \/ LANGUAGES.list = <<>>) => options = <<>>

\* C13 witness: a catalog of two entries has been turned into two options.
C13_Witness ==
  /\ LANGUAGES.defined /\ Len(LANGUAGES.list) = 2
  /\ options[1].value = "Rust" /\ options[2].textContent = "Go"

(***************************************************************************)
(* Tokens                                                                  *)
(***************************************************************************)

\* C14: the request a cycle awaits, the page request included, carries the
\* token made at that cycle's start; and aborting a token interrupts no
\* cycle but the one the token was made for.
C14_OwnToken ==
  /\ [](\A c \in Cycles : Awaiting(c) => cyc[c].signal = TokenOf(c))
  /\ [][\A c \in Cycles :
          (~Interrupted(c) /\ Interrupted(c)') =>
            aborted' \ aborted = {TokenOf(c)}]_vars

\* C15: the step that starts a cycle cancels the previous cycle's token,
\* makes a fresh token the current one and issues the count request under
\* it, and leaves the page loading: status "Loading...", no error colour,
\* the three controls disabled, card and refresh button hidden.
C15_StartIsAtomic ==
  [][currentAbort' # currentAbort =>
       /\ currentAbort' = currentAbort + 1
       /\ currentAbort # 0 => currentAbort \in aborted'
       /\ currentAbort' \notin aborted'
       /\ cyc'[currentAbort'].pc = "countFetch"
       /\ cyc'[currentAbort'].signal = currentAbort'
       /\ status' = LoadingMsg /\ statusColor' = ""
       /\ ControlsDisabled'
       /\ cardHidden' /\ refreshHidden']_vars

\* C15 witness: a cycle has just been started from a page that showed a
\* repository, while the previous cycle was still in flight.
C15_Witness ==
  /\ currentAbort = 2 /\ cyc[2].pc = "countFetch" /\ 1 \in aborted
  /\ Awaiting(1)
  /\ status = LoadingMsg /\ ControlsDisabled /\ cardHidden /\ refreshHidden

\* C16: the page is sampled only for a positive total (maxPages >= 1) and
\* lies in 1 .. maxPages; an item is sampled only from a non-empty sequence,
\* and the cycle then returns an element of the sequence, never undefined.
C16_SamplerInRange ==
  [][\A c \in Cycles :
       /\ (cyc[c].pc = "countJson" /\ cyc'[c].nsample # cyc[c].nsample) =>
            LET maxPages == maxPagesOf(totalOf(cyc[c].res.body))
            IN  /\ totalOf(cyc[c].res.body) > 0
                /\ maxPages >= 1
                /\ cyc'[c].pc = "pageFetch"
                /\ cyc'[c].page \in 1 .. maxPages
       /\ (cyc[c].pc = "pageJson" /\ cyc'[c].pc = "done") =>
            LET items == itemsOf(cyc[c].res.body)
            IN  /\ cyc'[c].outcome.kind # "undefined"
                /\ cyc'[c].nsample # cyc[c].nsample => Len(items) >= 1
                /\ (cyc[c].res.body.parses /\ Len(items) >= 1) =>
                     /\ cyc'[c].outcome.kind = "repo"
                     /\ cyc'[c].nsample = cyc[c].nsample + 1
                     /\ \E i \in 0 .. Len(items) - 1 :
                          cyc'[c].outcome.repo = items[i + 1]]_vars

\* C16 witness: the cycle returned the last of three items of its page.
C16_Witness ==
  /\ Settled(1) /\ cyc[1].outcome.kind = "repo" /\ cyc[1].nsample = 2
  /\ cyc[1].outcome.repo = RepoFull /\ view = renderRepo(RepoFull)

\* C17: the refresh button is visible exactly when the card is; they are
\* visible only when a cycle has returned a repository, its fields are
\* rendered and the status message is empty; while the page is idle, loading,
\* empty or errored both are hidden.
C17_RefreshFollowsCard ==
  /\ refreshHidden = cardHidden
  /\ ~cardHidden =>
       /\ status = <<>> /\ statusColor = ""
       /\ view # NoView
       /\ \E c \in Cycles : cyc[c].outcome.kind = "repo"
  /\ (currentAbort # 0 /\ Awaiting(currentAbort)) => cardHidden

(***************************************************************************)
(* Cycles started only through enabled controls                            *)
(***************************************************************************)
\* init: fetchBtn's click runs "fetch", refreshBtn's click runs "refresh";
\* a disabled button dispatches no click
Click(mode) ==
  /\ IF mode = "fetch" THEN ~fetchBtnDisabled ELSE ~refreshBtnDisabled
  /\ Run(mode)

GuardedNext ==
  \/ \E mode \in {"fetch", "refresh"} : Click(mode)
  \/ \E l \in {"Rust", "Go"} : SelectLanguage(l)
  \/ \E c \in Cycles, res \in CountResponses : CountFetchResolves(c, res)
  \/ \E c \in Cycles : CountFetchFails(c)
  \/ \E c \in Cycles, k \in RandomSamples : CountBodyRead(c, k)
  \/ \E c \in Cycles : CountErrorRead(c)
  \/ \E c \in Cycles, res \in PageResponses : PageFetchResolves(c, res)
  \/ \E c \in Cycles : PageFetchFails(c)
  \/ \E c \in Cycles, k \in RandomSamples : PageBodyRead(c, k)
  \/ \E c \in Cycles : PageErrorRead(c)

GuardedSpec == Init /\ [][GuardedNext]_vars

\* C18: when cycles start only by clicks on enabled controls, at most one
\* cycle is in flight, a cycle starts only when none is in flight, the token
\* of a cycle in flight is never cancelled, and the controls are enabled
\* exactly when no cycle is in flight (disabled exactly when one is).
C18_OneCycleWhenGuarded ==
  /\ [](Cardinality({c \in Cycles : Awaiting(c)}) <= 1)
  /\ [](\A c \in Cycles :
          Awaiting(c) => (TokenOf(c) \notin aborted /\ ~Cancelled(c)))
  /\ [](ControlsEnabled <=> NoCycleInFlight)
  /\ [](ControlsDisabled <=> ~NoCycleInFlight)
  /\ [][currentAbort' # currentAbort => NoCycleInFlight]_vars

\* C18 witness: the second cycle is in flight after the first one settled;
\* the first one's token was cancelled only then.
C18_Witness ==
  /\ currentAbort = 2 /\ Awaiting(2) /\ Settled(1) /\ 1 \in aborted
  /\ cyc[1].outcome.kind = "repo" /\ ControlsDisabled

====
